---- MODULE Spec2Model ----
(***************************************************************************)
(* Job lifecycle of the image-batch web API (src/api): create-job,         *)
(* create-job-update-params and complete-upload acting on the Cosmos DB    *)
(* job table, with the remote AI server and the blob SAS issuer as         *)
(* environment.  Every store operation (read_item, create_item,            *)
(* replace_item) and the POST to the AI server is one atomic step, so      *)
(* concurrent requests interleave between them.                            *)
(*                                                                         *)
(* Strings that the code takes apart or concatenates (job ids, path        *)
(* prefixes, request names, status messages) are sequences of pieces;      *)
(* other JSON values are TLA+ strings.  Timestamps are clock readings.     *)
(***************************************************************************)
EXTENDS Integers, Sequences, FiniteSets, TLC

\* ------------------------------------------------------------------ bounds
MaxOps == 3        \* requests made in one behaviour
MaxProcs == 2      \* multi-step requests in flight at once
MaxClock == 1      \* clock readings 0..MaxClock

Procs == 1..MaxProcs

\* ------------------------------------------------------------- JSON values
\* uuid.uuid4().hex: a fixed-length hex string; the model draws from these.
JobIds == {<<"a">>, <<"b">>}
NoJob == <<>>

Slash == "/"
\* JSON values v with isinstance(v, int) once parsed: the integers, and true
\* and false (bool is a subclass of int).
IntTokens == {"5", "true"}

\* Request bodies (JSON objects) a client may send.
EmptyBody == [k \in {} |-> "x"]
BodyMin == [num_images |-> "5"]
BodyFull == [num_images |-> "5", image_path_prefix |-> <<"x">>,
             input_container_sas |-> "sas", request_name |-> <<"b", "/", "x">>,
             caller |-> "evil"]
BodyNoCount == [image_path_prefix |-> <<"y">>, model_version |-> "v5",
                input_container_sas |-> "sas"]
BodyBadCount == [num_images |-> "five"]
BodyBoolCount == [num_images |-> "true"]
Bodies == {EmptyBody, BodyMin, BodyFull, BodyNoCount, BodyBadCount, BodyBoolCount}
\* The parameter sets sent to create-job-update-params, which does not look
\* at num_images.
NewParams == {EmptyBody, BodyMin, BodyFull, BodyNoCount}

\* ------------------------------------------------------------ job statuses
allowed_statuses ==
    {"created", "submitting_job", "running", "failed", "problem", "completed", "canceled"}

\* Texts are sequences of pieces: a formatted or concatenated string is the
\* sequence of its parts.
CreatedMsg == <<"Request received from React web. Pending upload images to Blob container">>
CallingMsg == <<"Calling AI server API...">>
UploadedText == "Request received from React web. Images were presumely uploaded."
NoteText == " Note: Could not reach AI server."
ErrorPrefix == "Error submitting to AI server: "

\* create-job main: the status of a new job.
CreatedStatus == [request_status |-> "created", message |-> CreatedMsg]

\* ------------------------------------------------------------------- state
VARIABLES
    store,      \* the Cosmos container: job id -> document
    now,        \* the UTC clock
    proc,       \* the multi-step requests in flight, one call record per slot
    last,       \* the call that returned in the step leading here (Idle: none)
    ops,        \* requests made so far
    blobs,      \* the upload container: the paths of the blobs in it
    arrived     \* the HTTP request that came in with the step leading here

vars == <<store, now, proc, last, ops, blobs, arrived>>

NoItem == [id |-> NoJob, status |-> CreatedStatus, job_submission_time |-> 0,
           last_updated |-> 0, call_params |-> EmptyBody]
NoResp == [code |-> 0, body |-> EmptyBody, headers |-> EmptyBody]
\* A call record: the request's inputs, its local variables, and what it has
\* done so far (posts sent, documents written, the exception or response).
Idle == [op |-> "idle", pc |-> "idle", job |-> NoJob, body |-> EmptyBody,
         item |-> NoItem, params |-> EmptyBody, pend |-> CreatedStatus, phase |-> 0,
         remote |-> "none", loaded |-> "none", existed |-> FALSE, fault |-> FALSE,
         posts |-> 0, writes |-> 0, sent |-> EmptyBody,
         exc |-> "none", resp |-> NoResp]

\* An HTTP request as the identity check sees it: the endpoint, whether the
\* x-ms-client-principal header is there, and, when it is not, whether the
\* function runs with AZURE_FUNCTIONS_ENVIRONMENT = Development (with the
\* header there the environment is not looked at).
NoRequest == [op |-> "none", auth |-> TRUE, dev |-> FALSE]
Request(op, auth, dev) == [op |-> op, auth |-> auth, dev |-> ~auth /\ dev]

Init ==
    /\ store = [j \in {} |-> NoItem]
    /\ now = 0
    /\ proc = [p \in Procs |-> Idle]
    /\ last = Idle
    /\ ops = 0
    /\ blobs = {}
    /\ arrived = NoRequest

\* --------------------------------------------------------- common helpers
Has(f, k) == k \in DOMAIN f
Without(f, k) == [x \in DOMAIN f \ {k} |-> f[x]]
With(f, k, v) == [x \in DOMAIN f \cup {k} |-> IF x = k THEN v ELSE f[x]]

IsPrefix(s, t) == Len(s) <= Len(t) /\ SubSeq(t, 1, Len(s)) = s
Contains(text, piece) == \E i \in DOMAIN text : text[i] = piece

Response(code, body) == [code |-> code, body |-> body, headers |-> EmptyBody]
ErrorResponse(code, text) == Response(code, [error |-> text])

\* The identity header check of create-job, complete-upload, get-jobs-by-user
\* and upload-file: rejected unless the header is there or the environment is
\* Development.
Unauthenticated(auth, dev) == ~auth /\ ~dev

\* get_utc_time(): the clock, read when called.
get_utc_time == now

\* Requests take the lowest free slot; a request turned away by the identity
\* check or the validation of its inputs does not count against MaxOps.
FreeSlot(p) == proc[p].pc = "idle" /\ \A q \in Procs : q < p => proc[q].pc # "idle"
Admitted(call) == call.resp.code \notin {400, 401}

\* The response of a call that has returned goes out before the next handler
\* step is taken.
Ready == last = Idle /\ arrived = NoRequest

\* A call returns (its record becomes `last`, its slot is free) or goes on.
Step(p, call) ==
    IF call.pc = "done"
    THEN proc' = [proc EXCEPT ![p] = Idle] /\ last' = call
    ELSE proc' = [proc EXCEPT ![p] = call] /\ last' = Idle

\* The clock moves on.  A reading nothing has been stamped with is left as it
\* is: moving on from it changes no order between timestamps.
Stamped(t) ==
    \/ \E j \in DOMAIN store : t \in {store[j].job_submission_time, store[j].last_updated}
    \/ \E p \in Procs : proc[p].pc = "ujs_write" /\ proc[p].item.last_updated = t

Tick ==
    /\ Ready
    /\ now < MaxClock
    /\ Stamped(now)
    /\ now' = now + 1
    /\ UNCHANGED <<store, proc, last, ops, blobs, arrived>>

\* The response of the call that has just returned goes out to its client.
Deliver ==
    /\ ~Ready
    /\ last' = Idle
    /\ arrived' = NoRequest
    /\ UNCHANGED <<store, now, proc, ops, blobs>>

\* ---------------------------------------------------------- JobStatusTable
AllowedChars == {"a", "b", "x", "y", ".", "_", "-"}
\* re.sub(r'[^a-zA-Z0-9._-]', '_', s)
Sanitize(s) == [i \in DOMAIN s |-> IF s[i] \in AllowedChars THEN s[i] ELSE "_"]

\* ValidStatus without the membership test.
ValidStatusFieldsOnly(status) ==
    /\ Has(status, "request_status")
    /\ Has(status, "message")

\* The validation of create_job_status and update_job_status.
ValidStatus(status) ==
    /\ Has(status, "request_status")
    /\ Has(status, "message")
    /\ status["request_status"] \in allowed_statuses

\* create_job_status: image_path_prefix scoped under the job id.
ScopedPrefix(job_id, call_params) ==
    IF Has(call_params, "image_path_prefix")
    THEN With(call_params, "image_path_prefix",
              job_id \o <<Slash>> \o call_params["image_path_prefix"])
    ELSE With(call_params, "image_path_prefix", job_id)

StripSas(call_params) ==
    IF Has(call_params, "input_container_sas")
    THEN Without(call_params, "input_container_sas")
    ELSE call_params

SanitizeName(call_params) ==
    IF Has(call_params, "request_name")
    THEN With(call_params, "request_name", Sanitize(call_params["request_name"]))
    ELSE call_params

StampCaller(call_params) == With(call_params, "caller", "awc")

\* The document create_job_status builds.
CreateItem(job_id, status, call_params) ==
    [id |-> job_id,
     status |-> status,
     job_submission_time |-> get_utc_time,
     last_updated |-> get_utc_time,
     call_params |-> StampCaller(SanitizeName(StripSas(ScopedPrefix(job_id, call_params))))]

\* CanCreate as upsert_item would have it: an id already stored is no obstacle.
CanCreateUpsert(job_id, storeOk) == storeOk

\* Cosmos create_item: refuses an id that is already stored.
CanCreate(job_id, storeOk) == storeOk /\ job_id \notin DOMAIN store

StoreCreate(item) ==
    [j \in DOMAIN store \cup {item.id} |-> IF j = item.id THEN item ELSE store[j]]

\* JobStatusTable.create_job_status: "ok", or the exception it raises.
CreateOutcome(job_id, status, storeOk) ==
    IF ~ValidStatus(status) THEN "ValueError"
    ELSE IF ~CanCreate(job_id, storeOk) THEN "CosmosError"
    ELSE "ok"

\* Cosmos read_item succeeds on a stored id.
CanRead(job_id, storeOk) == storeOk /\ job_id \in DOMAIN store

\* update_job_status up to its replace_item: the document read, validated,
\* with the new status and a fresh last_updated; or the exception raised.
UpdateRead(call, storeOk) ==
    IF ~CanRead(call.job, storeOk) THEN [call EXCEPT !.exc = "CosmosError"]
    ELSE IF ~ValidStatus(call.pend) THEN [call EXCEPT !.exc = "ValueError"]
    ELSE [call EXCEPT !.pc = "ujs_write",
                      !.item = [store[call.job] EXCEPT !.status = call.pend,
                                                       !.last_updated = get_utc_time]]

\* StoreReplace as a patch that leaves the stored call_params as they are.
StoreReplaceKeepParams(item) ==
    [store EXCEPT ![item.id] = [item EXCEPT !.call_params = store[item.id].call_params]]

\* Cosmos replace_item: the stored document is replaced whole.
StoreReplace(item) == [store EXCEPT ![item.id] = item]

\* ------------------------------------------------------------- create-job
\* 'num_images' in req_body and isinstance(req_body['num_images'], int)
CountOk(req_body) == Has(req_body, "num_images") /\ req_body["num_images"] \in IntTokens

DEFAULT_SAS_EXPIRY_MINUTES == 60

\* GenerateSasToken with the expiry taken as a time of day, not as a duration.
GenerateSasTokenAbsolute(blob_name, expiry_minutes) ==
    [blob_name |-> blob_name, permission |-> "racwl", expiry |-> expiry_minutes]

\* generate_sas_token(blob_name, expiry_minutes): what the token grants, on
\* which path, and until when.  datetime.now(timezone.utc) is the clock, and
\* the clock counts minutes.
GenerateSasToken(blob_name, expiry_minutes) ==
    [blob_name |-> blob_name, permission |-> "racwl", expiry |-> now + expiry_minutes]

\* generate_directory_sas_url(job_id): the URL of the job's directory with a
\* token of the default lifetime.
generate_directory_sas_url(job_id) ==
    [path |-> job_id \o <<Slash>>,
     sas_token |-> GenerateSasToken(job_id \o <<Slash>>, DEFAULT_SAS_EXPIRY_MINUTES)]

\* main of create-job.  It makes one store operation, so it is one step:
\* identity check, validation, uuid4, create_job_status, then the SAS URL.
CreateJob ==
    /\ Ready
    /\ ops < MaxOps
    /\ \E auth \in BOOLEAN, dev \in BOOLEAN, req_body \in Bodies, job_id \in JobIds,
       storeOk \in BOOLEAN, sasOk \in BOOLEAN :
        LET call == [Idle EXCEPT !.op = "create", !.pc = "done", !.body = req_body]
            made == [call EXCEPT !.job = job_id, !.existed = job_id \in DOMAIN store]
            out == CreateOutcome(job_id, CreatedStatus, storeOk)
        IN  /\ UNCHANGED <<now, proc, blobs>>
            /\ arrived' = Request("create", auth, dev)
            /\ IF Unauthenticated(auth, dev)
               THEN /\ last' = [call EXCEPT !.resp = ErrorResponse(401, <<"Authentication required">>)]
                    /\ UNCHANGED <<store>>
               ELSE IF ~CountOk(req_body)
               THEN /\ last' = [call EXCEPT !.resp =
                            ErrorResponse(400, <<"num_images is required and must be an integer">>)]
                    /\ UNCHANGED <<store>>
               ELSE IF out # "ok"
               THEN /\ last' = [made EXCEPT !.exc = out, !.resp = ErrorResponse(500, <<out>>)]
                    /\ UNCHANGED <<store>>
               ELSE /\ store' = StoreCreate(CreateItem(job_id, CreatedStatus, req_body))
                    /\ IF sasOk
                       THEN last' = [made EXCEPT !.writes = 1,
                                !.resp = [Response(200, [jobId |-> job_id]) EXCEPT !.headers =
                                    [sas_url |-> generate_directory_sas_url(job_id)]]]
                       ELSE last' = [made EXCEPT !.writes = 1, !.exc = "SasError",
                                                 !.resp = ErrorResponse(500, <<"SasError">>)]
            /\ ops' = IF Admitted(last') THEN ops + 1 ELSE ops

\* -------------------------------------------------------- complete-upload
CallingStatus == [request_status |-> "created", message |-> CallingMsg]
\* SuccessStatus moving the job on to "running".
SuccessStatusRunning == [request_status |-> "running", message |-> <<UploadedText>>]
SuccessStatus == [request_status |-> "created", message |-> <<UploadedText>>]
NoteStatus == [request_status |-> "created", message |-> <<UploadedText, NoteText>>]

\* ErrorStatus with the status "failed".
ErrorStatusFailed(error_message) ==
    [request_status |-> "failed", message |-> <<ErrorPrefix>> \o error_message]

\* ErrorStatus keeping "created", as the other two statuses of main do.
ErrorStatusCreated(error_message) ==
    [request_status |-> "created", message |-> <<ErrorPrefix>> \o error_message]

ErrorStatus(error_message) ==
    [request_status |-> "problem", message |-> <<ErrorPrefix>> \o error_message]

SuccessResponse(job_id) ==
    Response(200, [success |-> TRUE, message |-> <<"Job submitted for processing">>,
                   jobId |-> job_id])
DispatchErrorResponse(job_id, error_message) ==
    Response(500, [success |-> FALSE, error |-> error_message, jobId |-> job_id])
NoteResponse(job_id) ==
    Response(200, [success |-> TRUE,
                   message |-> <<"Job recorded successfully.",
                                 " Note: Could not connect to processing server, but your job has been registered.">>,
                   jobId |-> job_id])

\* What the POST to the AI server can come to.  "disabled": the call is
\* switched off (ENABLE_EXTERNAL_API_CALL) and nothing is sent.
RemoteOutcomes ==
    {"disabled", "ok", "http_json_error", "http_text", "http_empty", "conn_error", "timeout"}
HttpFailures == {"http_json_error", "http_text", "http_empty"}

\* response.status_code, after the mock response that replaces a skipped call
\* or a ConnectionError.
StatusCode(outcome) == IF outcome \in HttpFailures THEN 503 ELSE 200
SuccessCode == 200

\* error_message of a non-200 response: the JSON body's error field, else the
\* raw text of a body that is not JSON, else the status code line.
ErrorMessage(outcome) ==
    CASE outcome = "http_json_error" -> <<"queue full">>
      [] outcome = "http_text" -> <<"Bad Gateway">>
      [] OTHER -> <<"AI server returned status code ", "503">>

\* main from the call_params lookup to the status update that follows the
\* POST; requests.exceptions.Timeout and the like reach the outer handler.
Dispatch(call, outcome) ==
    LET posted == IF outcome = "disabled" THEN call
                  ELSE [call EXCEPT !.posts = @ + 1, !.sent = call.params]
        tried == [posted EXCEPT !.remote = outcome, !.pc = "ujs_read"]
    IN  IF outcome = "timeout"
        THEN [tried EXCEPT !.phase = 4, !.pend = NoteStatus]
        ELSE IF StatusCode(outcome) = SuccessCode
        THEN [tried EXCEPT !.phase = 2, !.pend = SuccessStatus]
        ELSE [tried EXCEPT !.phase = 3, !.pend = ErrorStatus(ErrorMessage(outcome))]

\* CuOnException going on to the POST when the first status update failed.
CuOnExceptionSwallow(call) ==
    CASE call.phase = 1 -> [call EXCEPT !.pc = "cu_dispatch", !.exc = "none"]
      [] call.phase \in {2, 3} ->
            [call EXCEPT !.pc = "ujs_read", !.phase = 4, !.pend = NoteStatus, !.exc = "none"]
      [] OTHER ->
            [call EXCEPT !.pc = "done",
                         !.resp = Response(500, [success |-> FALSE,
                                                 error |-> <<"Unexpected error: ", call.exc>>])]

\* The handlers an exception of update_job_status reaches in main.
CuOnException(call) ==
    CASE call.phase = 1 ->
            [call EXCEPT !.pc = "done",
                         !.resp = ErrorResponse(500, <<"Failed to update job status: ", call.exc>>)]
      [] call.phase \in {2, 3} ->
            [call EXCEPT !.pc = "ujs_read", !.phase = 4, !.pend = NoteStatus, !.exc = "none"]
      [] OTHER ->
            [call EXCEPT !.pc = "done",
                         !.resp = Response(500, [success |-> FALSE,
                                                 error |-> <<"Unexpected error: ", call.exc>>])]

\* CuOnWritten with a second POST after an answer other than 200.
CuOnWrittenRetry(call) ==
    CASE call.phase = 1 -> [call EXCEPT !.pc = "cu_dispatch"]
      [] call.phase = 2 -> [call EXCEPT !.pc = "done", !.resp = SuccessResponse(call.job)]
      [] call.phase = 3 -> [call EXCEPT !.pc = "cu_dispatch"]
      [] OTHER -> [call EXCEPT !.pc = "done", !.resp = NoteResponse(call.job)]

\* Where main goes on after update_job_status has returned.
CuOnWritten(call) ==
    CASE call.phase = 1 -> [call EXCEPT !.pc = "cu_dispatch"]
      [] call.phase = 2 -> [call EXCEPT !.pc = "done", !.resp = SuccessResponse(call.job)]
      [] call.phase = 3 ->
            [call EXCEPT !.pc = "done",
                         !.resp = DispatchErrorResponse(call.job, ErrorMessage(call.remote))]
      [] OTHER -> [call EXCEPT !.pc = "done", !.resp = NoteResponse(call.job)]

OnException(call) ==
    IF call.op = "cu" THEN CuOnException(call) ELSE [call EXCEPT !.pc = "done"]
OnWritten(call) ==
    IF call.op = "cu" THEN CuOnWritten(call) ELSE [call EXCEPT !.pc = "done"]

\* main up to the job lookup: identity check and jobId validation.
CuStart(p) ==
    /\ Ready
    /\ FreeSlot(p)
    /\ ops < MaxOps
    /\ \E auth \in BOOLEAN, dev \in BOOLEAN, job_id \in JobIds \cup {NoJob} :
        LET call == [Idle EXCEPT !.op = "cu", !.job = job_id]
        IN  /\ Step(p, IF Unauthenticated(auth, dev)
                    THEN [call EXCEPT !.pc = "done",
                                      !.resp = ErrorResponse(401, <<"Authentication required">>)]
                    ELSE IF job_id = NoJob
                    THEN [call EXCEPT !.pc = "done",
                                      !.resp = ErrorResponse(400, <<"jobId is required">>)]
                    ELSE [call EXCEPT !.pc = "cu_load"])
           /\ arrived' = Request("cu", auth, dev)
    /\ ops' = IF proc'[p] # Idle THEN ops + 1 ELSE ops
    /\ UNCHANGED <<store, now, blobs>>

\* CuLoaded with no handler of its own around get_job_status: the exception
\* reaches the handler of unexpected errors.
CuLoadedUnhandled(call, storeOk) ==
    IF CanRead(call.job, storeOk)
    THEN [call EXCEPT !.pc = "ujs_read", !.phase = 1, !.pend = CallingStatus,
                      !.loaded = "found", !.params = store[call.job].call_params]
    ELSE [call EXCEPT !.pc = "done", !.fault = ~storeOk,
                      !.loaded = IF call.job \in DOMAIN store THEN "error" ELSE "absent",
                      !.resp = Response(500, [success |-> FALSE,
                                              error |-> <<"Unexpected error: ", "CosmosError">>])]

\* job_table.get_job_status(job_id): any exception is answered 404.
CuLoaded(call, storeOk) ==
    IF CanRead(call.job, storeOk)
    THEN [call EXCEPT !.pc = "ujs_read", !.phase = 1, !.pend = CallingStatus,
                      !.loaded = "found", !.params = store[call.job].call_params]
    ELSE [call EXCEPT !.pc = "done", !.fault = ~storeOk,
                      !.loaded = IF call.job \in DOMAIN store THEN "error" ELSE "absent",
                      !.resp = ErrorResponse(404, <<"Job not found: ", "CosmosError">>)]

CuLoad(p) ==
    /\ Ready
    /\ proc[p].pc = "cu_load"
    /\ \E storeOk \in BOOLEAN : Step(p, CuLoaded(proc[p], storeOk))
    /\ UNCHANGED <<store, now, ops, blobs, arrived>>

CuDispatch(p) ==
    /\ Ready
    /\ proc[p].pc = "cu_dispatch"
    /\ \E outcome \in RemoteOutcomes : Step(p, Dispatch(proc[p], outcome))
    /\ UNCHANGED <<store, now, ops, blobs, arrived>>

\* update_job_status, first half: read_item, validation, the new document.
UjsRead(p) ==
    /\ Ready
    /\ proc[p].pc = "ujs_read"
    /\ \E storeOk \in BOOLEAN :
        LET call == UpdateRead(proc[p], storeOk)
        IN  Step(p, IF call.exc # "none"
                    THEN OnException([call EXCEPT !.fault = @ \/ ~storeOk])
                    ELSE call)
    /\ UNCHANGED <<store, now, ops, blobs, arrived>>

\* update_job_status, second half: replace_item.
UjsWrite(p) ==
    /\ Ready
    /\ proc[p].pc = "ujs_write"
    /\ \E storeOk \in BOOLEAN :
        IF CanRead(proc[p].job, storeOk)
        THEN /\ store' = StoreReplace(proc[p].item)
             /\ Step(p, OnWritten([proc[p] EXCEPT !.writes = @ + 1]))
        ELSE /\ store' = store
             /\ Step(p, OnException([proc[p] EXCEPT !.exc = "CosmosError", !.fault = TRUE]))
    /\ UNCHANGED <<now, ops, blobs, arrived>>

\* ------------------------------------------------ create-job-update-params
\* EnsureContainerSasUrl without the removal of input_container_sas.
EnsureContainerSasUrlKeep(params) == With(params, "caller", "awc")

\* ensure_container_sas_url
EnsureContainerSasUrl(params) ==
    LET kept == IF Has(params, "input_container_sas")
                THEN Without(params, "input_container_sas")
                ELSE params
    IN  With(kept, "caller", "awc")

\* UpdateJobParams as a merge (dict.update) into the stored parameters.
UpdateJobParamsMerge(job_item, new_params) ==
    [job_item EXCEPT !.call_params =
        [k \in DOMAIN new_params \cup DOMAIN job_item.call_params |->
            IF k \in DOMAIN new_params THEN new_params[k] ELSE job_item.call_params[k]]]

\* update_job_params: the document that replaces the stored one.
UpdateJobParams(job_item, new_params) == [job_item EXCEPT !.call_params = new_params]

\* main up to the job lookup: identity check (no Development exemption here),
\* route parameter, body.
UpStart(p) ==
    /\ Ready
    /\ FreeSlot(p)
    /\ ops < MaxOps
    /\ \E auth \in BOOLEAN, dev \in BOOLEAN, job_id \in JobIds \cup {NoJob},
          req_body \in NewParams :
        LET call == [Idle EXCEPT !.op = "up", !.job = job_id, !.body = req_body]
        IN  /\ Step(p, IF ~auth
                    THEN [call EXCEPT !.pc = "done",
                                      !.resp = ErrorResponse(401, <<"Authentication required">>)]
                    ELSE IF job_id = NoJob
                    THEN [call EXCEPT !.pc = "done",
                                      !.resp = ErrorResponse(400, <<"Job ID is required">>)]
                    ELSE IF req_body = EmptyBody
                    THEN [call EXCEPT !.pc = "done",
                                      !.resp = ErrorResponse(400, <<"Request body is required">>)]
                    ELSE [call EXCEPT !.pc = "up_read"])
           /\ arrived' = Request("up", auth, dev)
    /\ ops' = IF proc'[p] # Idle THEN ops + 1 ELSE ops
    /\ UNCHANGED <<store, now, blobs>>

\* get_job_by_id, then ensure_container_sas_url on the request body.
UpLoaded(call, storeOk) ==
    IF CanRead(call.job, storeOk)
    THEN [call EXCEPT !.pc = "up_write", !.loaded = "found", !.item = store[call.job],
                      !.params = EnsureContainerSasUrl(call.body)]
    ELSE [call EXCEPT !.pc = "done", !.fault = ~storeOk,
                      !.loaded = IF call.job \in DOMAIN store THEN "error" ELSE "absent",
                      !.resp = ErrorResponse(404, <<"Job not found: ", "CosmosError">>)]

UpRead(p) ==
    /\ Ready
    /\ proc[p].pc = "up_read"
    /\ \E storeOk \in BOOLEAN : Step(p, UpLoaded(proc[p], storeOk))
    /\ UNCHANGED <<store, now, ops, blobs, arrived>>

\* update_job_params: replace_item of the document read earlier.
UpWrite(p) ==
    /\ Ready
    /\ proc[p].pc = "up_write"
    /\ \E storeOk \in BOOLEAN :
        IF CanRead(proc[p].job, storeOk)
        THEN /\ store' = StoreReplace(UpdateJobParams(proc[p].item, proc[p].params))
             /\ Step(p, [proc[p] EXCEPT !.pc = "done", !.writes = @ + 1,
                            !.resp = Response(200, [success |-> TRUE,
                                         message |-> <<"Job parameters updated successfully">>])])
        ELSE /\ store' = store
             /\ Step(p, [proc[p] EXCEPT !.pc = "done", !.exc = "CosmosError", !.fault = TRUE,
                            !.resp = ErrorResponse(500, <<"CosmosError">>)])
    /\ UNCHANGED <<now, ops, blobs, arrived>>

\* -------------------------------------------------------- get-jobs-by-user
\* userId values of a request; NoUser: the parameter is missing or empty.
UserIds == {<<"b", "/", "x">>, <<"b", "_", "x">>}
NoUser == <<>>

\* QueryValue with the userId passed to the query as it came.
QueryValueRaw(user_id) == user_id

\* sanitized_user_id, the value of the query's @userId parameter.
QueryValue(user_id) == Sanitize(user_id)

\* extract_folder_name: the second part of the path split at "/", or the path
\* itself when it has no "/".
extract_folder_name(path_prefix) ==
    LET slashes == {i \in DOMAIN path_prefix : path_prefix[i] = Slash}
    IN  IF slashes = {} THEN path_prefix
        ELSE LET first == CHOOSE i \in slashes : \A k \in slashes : i <= k
                 later == {k \in slashes : k > first}
                 stop == IF later = {} THEN Len(path_prefix) + 1
                         ELSE CHOOSE i \in later : \A k \in later : i <= k
             IN  SubSeq(path_prefix, first + 1, stop - 1)

\* One row of the query's SELECT, after main has reshaped it.  A property the
\* document does not have is "undefined" (<<>> for a path).
JobSummary(item) ==
    [id |-> item.id,
     request_status |-> item.status["request_status"],
     message |-> item.status["message"],
     num_images |-> IF Has(item.call_params, "num_images")
                    THEN item.call_params["num_images"] ELSE "undefined",
     job_submission_time |-> item.job_submission_time,
     last_updated |-> item.last_updated,
     image_path_prefix |-> IF Has(item.call_params, "image_path_prefix")
                           THEN item.call_params["image_path_prefix"] ELSE <<>>,
     folder_name |-> IF Has(item.call_params, "image_path_prefix")
                     THEN extract_folder_name(item.call_params["image_path_prefix"])
                     ELSE <<>>]

\* The query: WHERE c.call_params.request_name = @userId.
QueryItems(value) ==
    {j \in DOMAIN store : /\ Has(store[j].call_params, "request_name")
                          /\ store[j].call_params["request_name"] = value}

\* The rows main answers for a userId (their order is by submission time).
JobsOfUser(user_id) == {JobSummary(store[j]) : j \in QueryItems(QueryValue(user_id))}

\* main of get-jobs-by-user: one query, so one step.  It changes nothing, so
\* it does not count against MaxOps.
ListJobs ==
    /\ Ready
    /\ \E auth \in BOOLEAN, dev \in BOOLEAN, user_id \in UserIds \cup {NoUser},
          storeOk \in BOOLEAN :
        LET call == [Idle EXCEPT !.op = "list", !.pc = "done",
                                 !.body = [userId |-> user_id]]
        IN  /\ arrived' = Request("list", auth, dev)
            /\ last' = IF Unauthenticated(auth, dev)
                       THEN [call EXCEPT !.resp = ErrorResponse(401, <<"Authentication required">>)]
                       ELSE IF user_id = NoUser
                       THEN [call EXCEPT !.resp = ErrorResponse(400, <<"User ID is required">>)]
                       ELSE IF ~storeOk
                       THEN [call EXCEPT !.fault = TRUE, !.exc = "CosmosError",
                                         !.resp = ErrorResponse(500, <<"Error retrieving jobs: ",
                                                                      "CosmosError">>)]
                       ELSE [call EXCEPT !.resp = Response(200, [items |-> JobsOfUser(user_id)])]
    /\ UNCHANGED <<store, now, proc, ops, blobs>>

\* ------------------------------------------------------------- upload-file
FileNames == {<<"f">>}
NoFile == <<>>
\* fileContent: missing, base64, or text that b64decode refuses.
FileContents == {"none", "base64", "not base64"}

\* main of upload-file: one upload_blob(overwrite=True), so one step.
UploadFile ==
    /\ Ready
    /\ ops < MaxOps
    /\ \E auth \in BOOLEAN, dev \in BOOLEAN, job_id \in JobIds \cup {NoJob},
          file_name \in FileNames \cup {NoFile}, file_content \in FileContents,
          blobOk \in BOOLEAN :
        LET call == [Idle EXCEPT !.op = "upload", !.pc = "done", !.job = job_id,
                                 !.body = [fileName |-> file_name, fileContent |-> file_content]]
            blob_path == job_id \o <<Slash>> \o file_name
        IN  /\ arrived' = Request("upload", auth, dev)
            /\ IF Unauthenticated(auth, dev)
               THEN /\ last' = [call EXCEPT !.resp = ErrorResponse(401, <<"Authentication required">>)]
                    /\ blobs' = blobs
               ELSE IF job_id = NoJob \/ file_name = NoFile \/ file_content = "none"
               THEN /\ last' = [call EXCEPT !.resp = ErrorResponse(400,
                                    <<"Missing required fields: jobId, fileName, fileContent">>)]
                    /\ blobs' = blobs
               ELSE IF file_content = "not base64"
               THEN /\ last' = [call EXCEPT !.resp = ErrorResponse(400, <<"Invalid base64 content: ",
                                                                         "binascii.Error">>)]
                    /\ blobs' = blobs
               ELSE IF ~blobOk
               THEN /\ last' = [call EXCEPT !.exc = "BlobError",
                                            !.resp = ErrorResponse(500, <<"BlobError">>)]
                    /\ blobs' = blobs
               ELSE /\ last' = [call EXCEPT !.resp = Response(200,
                                    [success |-> TRUE, message |-> <<"File uploaded successfully">>,
                                     blobPath |-> blob_path])]
                    /\ blobs' = blobs \cup {blob_path}
    /\ ops' = IF Admitted(last') THEN ops + 1 ELSE ops
    /\ UNCHANGED <<store, now, proc>>

\* ------------------------------------------- JobStatusTable called directly
\* Statuses a caller of the table may pass, valid and not.
Statuses ==
    {[request_status |-> "running", message |-> <<"m">>],
     [request_status |-> "done", message |-> <<"m">>],
     [request_status |-> "running"],
     [message |-> <<"m">>]}

\* create_job_status(job_id, status, call_params) with any status.
TableCreate ==
    /\ Ready
    /\ ops < MaxOps
    /\ ops' = ops + 1
    /\ \E job_id \in JobIds, status \in Statuses, call_params \in {BodyMin, BodyFull},
          storeOk \in BOOLEAN :
        LET out == CreateOutcome(job_id, status, storeOk)
            call == [Idle EXCEPT !.op = "tbl_create", !.pc = "done", !.job = job_id,
                                 !.pend = status, !.body = call_params,
                                 !.existed = job_id \in DOMAIN store, !.fault = ~storeOk]
        IN  IF out = "ok"
            THEN /\ store' = StoreCreate(CreateItem(job_id, status, call_params))
                 /\ last' = [call EXCEPT !.writes = 1]
            ELSE /\ store' = store
                 /\ last' = [call EXCEPT !.exc = out]
    /\ UNCHANGED <<now, proc, blobs, arrived>>

\* update_job_status(job_id, status) with any status: UjsRead, then UjsWrite.
TableUpdate(p) ==
    /\ Ready
    /\ FreeSlot(p)
    /\ ops < MaxOps
    /\ ops' = ops + 1
    /\ \E job_id \in JobIds, status \in Statuses :
        Step(p, [Idle EXCEPT !.op = "ujs", !.pc = "ujs_read", !.job = job_id, !.pend = status])
    /\ UNCHANGED <<store, now, blobs, arrived>>

\* generate_sas_token(blob_name, expiry_minutes) with any lifetime.
SasMinutes == {0, 1, DEFAULT_SAS_EXPIRY_MINUTES}
TokenIssue ==
    /\ Ready
    /\ \E expiry_minutes \in SasMinutes :
        last' = [Idle EXCEPT !.op = "sas", !.pc = "done",
                    !.body = [expiry_minutes |-> expiry_minutes],
                    !.resp = [Response(200, EmptyBody) EXCEPT !.headers =
                        [sas_token |-> GenerateSasToken(<<>>, expiry_minutes)]]]
    /\ UNCHANGED <<store, now, proc, ops, blobs, arrived>>

\* ----------------------------------------------------------- specification
Next ==
    \/ Deliver
    \/ Tick
    \/ CreateJob
    \/ \E p \in Procs : CuStart(p)
    \/ \E p \in Procs : CuLoad(p)
    \/ \E p \in Procs : CuDispatch(p)
    \/ \E p \in Procs : UjsRead(p)
    \/ \E p \in Procs : UjsWrite(p)
    \/ \E p \in Procs : UpStart(p)
    \/ \E p \in Procs : UpRead(p)
    \/ \E p \in Procs : UpWrite(p)

Spec == Init /\ [][Next]_vars

\* The three endpoints above with get-jobs-by-user and upload-file.
NextAll ==
    \/ Next
    \/ ListJobs
    \/ UploadFile

SpecAll == Init /\ [][NextAll]_vars

\* The endpoints that write and read call_params.request_name.
NextNames ==
    \/ Deliver
    \/ CreateJob
    \/ \E p \in Procs : UpStart(p)
    \/ \E p \in Procs : UpRead(p)
    \/ \E p \in Procs : UpWrite(p)
    \/ ListJobs

SpecNames == Init /\ [][NextNames]_vars

\* The remote worker, which is no part of src/api: it writes the progress of a
\* job it was handed into the job's record, as one store operation.
WorkerStatuses == {"running", "completed", "failed"}
WorkerWrite ==
    /\ Ready
    /\ ops < MaxOps
    /\ ops' = ops + 1
    /\ \E j \in DOMAIN store, s \in WorkerStatuses :
        store' = [store EXCEPT ![j].status = [request_status |-> s, message |-> <<"worker">>],
                               ![j].last_updated = now]
    /\ UNCHANGED <<now, proc, last, blobs, arrived>>

\* The endpoints with the remote worker writing to the store beside them.
NextWorker ==
    \/ Next
    \/ WorkerWrite

SpecWorker == Init /\ [][NextWorker]_vars

\* The endpoints, and besides them callers that use JobStatusTable and
\* generate_sas_token directly.
NextAPI ==
    \/ Next
    \/ TableCreate
    \/ \E p \in Procs : TableUpdate(p)
    \/ TokenIssue

SpecAPI == Init /\ [][NextAPI]_vars
\* ------------------------------------------------------------------ claims
\* The closed enumeration of the data model, spelled out.
SevenStatuses ==
    {"created", "submitting_job", "running", "failed", "problem", "completed", "canceled"}
WellFormed(status) ==
    /\ "request_status" \in DOMAIN status
    /\ "message" \in DOMAIN status
    /\ status["request_status"] \in SevenStatuses

\* C1: every stored job record's status.request_status is one of the seven
\* values, after any sequence of endpoint calls and of direct calls of
\* create_job_status and update_job_status with any status.
C1_StatusInClosedSet ==
    \A j \in DOMAIN store :
        /\ "request_status" \in DOMAIN store[j].status
        /\ store[j].status["request_status"] \in SevenStatuses

\* C1 witness: complete-upload has moved a job to "problem".
C1_Witness ==
    \E j \in DOMAIN store : store[j].status["request_status"] = "problem"

\* C2: a create_job_status or update_job_status call whose status is not well
\* formed (request_status outside the seven values, or request_status or
\* message missing) raises, and the step writes nothing; the exception is the
\* ValueError of the validation whenever the call got as far as validating
\* (always for a creation, and for an update once its read_item succeeded).
C2_InvalidStatusRejected ==
    [][(last' # Idle /\ last'.op \in {"tbl_create", "ujs"} /\ ~WellFormed(last'.pend))
        => /\ store' = store
           /\ last'.writes = 0
           /\ last'.exc \in {"ValueError", "CosmosError"}
           /\ (last'.op = "tbl_create" \/ (last'.job \in DOMAIN store /\ ~last'.fault))
                => last'.exc = "ValueError"]_vars

\* C2 witness: an update of a stored job with request_status "done" was
\* rejected by the validation.
C2_Witness ==
    /\ last.op = "ujs"
    /\ last.job \in DOMAIN store
    /\ "request_status" \in DOMAIN last.pend
    /\ last.pend["request_status"] = "done"
    /\ last.exc = "ValueError"

\* C3: a create-job call never changes or replaces a record already stored,
\* and one answered 200 returns an id that was not stored before, under which
\* the new record is stored with image_path_prefix = id when the body had no
\* prefix and id + "/" + prefix when it had one (so it begins with the id).
C3_FreshIdScopedPrefix ==
    [][(last' # Idle /\ last'.op = "create")
        => /\ \A k \in DOMAIN store : k \in DOMAIN store' /\ store'[k] = store[k]
           /\ last'.resp.code = 200 =>
                LET j == last'.resp.body["jobId"]
                    body == last'.body
                IN  /\ j \notin DOMAIN store
                    /\ j \in DOMAIN store'
                    /\ store'[j].id = j
                    /\ store'[j].call_params["image_path_prefix"] =
                          IF "image_path_prefix" \in DOMAIN body
                          THEN j \o <<"/">> \o body["image_path_prefix"]
                          ELSE j
                    /\ IsPrefix(j, store'[j].call_params["image_path_prefix"])]_vars

\* C3 witness: a second job was created, with a prefix in its body.
C3_Witness ==
    /\ last.op = "create"
    /\ last.resp.code = 200
    /\ Cardinality(DOMAIN store) = 2
    /\ "image_path_prefix" \in DOMAIN last.body

\* C4: in every reachable state each stored record's
\* call_params.image_path_prefix begins with the record's id.
C4_PrefixAlwaysScoped ==
    \A j \in DOMAIN store :
        /\ "image_path_prefix" \in DOMAIN store[j].call_params
        /\ IsPrefix(j, store[j].call_params["image_path_prefix"])

\* What updateParameters is to store for a replacement parameter set p.
Replacement(p) ==
    [k \in (DOMAIN p \ {"input_container_sas"}) \cup {"caller"} |->
        IF k = "caller" THEN "awc" ELSE p[k]]

\* C5: right after an update-params call answered 200, the stored call_params
\* are exactly the request's parameter set without input_container_sas and
\* with caller = "awc"; no key of the earlier call_params survives otherwise.
C5_WholesaleReplacement ==
    (last.op = "up" /\ last.resp.code = 200)
        => /\ last.body # EmptyBody
           /\ last.job \in DOMAIN store
           /\ store[last.job].call_params = Replacement(last.body)

\* C5 witness: the replacement carried a credential and no num_images, and the
\* record it replaced had num_images.
C5_Witness ==
    /\ last.op = "up"
    /\ last.resp.code = 200
    /\ "input_container_sas" \in DOMAIN last.body
    /\ "num_images" \in DOMAIN last.item.call_params
    /\ "num_images" \notin DOMAIN store[last.job].call_params

\* C6: no stored call_params holds input_container_sas, and every stored
\* call_params.caller is "awc".
C6_NoCredentialCallerStamped ==
    \A j \in DOMAIN store :
        /\ "input_container_sas" \notin DOMAIN store[j].call_params
        /\ "caller" \in DOMAIN store[j].call_params
        /\ store[j].call_params["caller"] = "awc"

\* C6 witness: an update-params call whose body carried a credential and a
\* caller of its own was stored.
C6_Witness ==
    /\ last.op = "up"
    /\ last.resp.code = 200
    /\ "input_container_sas" \in DOMAIN last.body
    /\ "caller" \in DOMAIN last.body
    /\ last.body["caller"] = "evil"

\* C7: no step lowers a stored record's last_updated (the first half of the
\* claim: last_updated never decreases over any interleaving).
C7_LastUpdatedMonotone ==
    [][\A j \in DOMAIN store :
            j \in DOMAIN store' /\ store'[j].last_updated >= store[j].last_updated]_vars

\* C8: a complete-upload whose POST failed with a ConnectionError, and whose
\* store operations all went through, is answered 200 with a message noting
\* the connectivity failure, and the status message stored for the job holds
\* the note.
ResponseNote == " Note: Could not connect to processing server, but your job has been registered."
C8_UnreachableNoted ==
    (last.op = "cu" /\ last.remote = "conn_error" /\ ~last.fault)
        => /\ last.resp.code = 200
           /\ "message" \in DOMAIN last.resp.body
           /\ Contains(last.resp.body["message"], ResponseNote)
           /\ Contains(store[last.job].status["message"], NoteText)

\* C9, as claimed: after a complete-upload whose dispatch failed (non-200
\* answer, transport failure or timeout), and whose store operations all went
\* through, the stored status is "problem" with the failure detail.
DispatchFailures == {"http_json_error", "http_text", "http_empty", "conn_error", "timeout"}
C9_DispatchFailureIsProblem ==
    (last.op = "cu" /\ last.remote \in DispatchFailures /\ ~last.fault)
        => /\ store[last.job].status["request_status"] = "problem"
           /\ Len(store[last.job].status["message"]) > 1

\* C9, amended: when the AI server answers with another code than 200 and
\* complete-upload returns 500 with the jobId (its write of the error status
\* went through), the stored status is "problem" with "Error submitting to AI
\* server: " and the detail, which the response carries too; when the POST
\* fails by a ConnectionError or a timeout and complete-upload returns 200,
\* the stored request_status is "created".
C9_HttpFailureIsProblem ==
    /\ (last.op = "cu" /\ last.remote \in {"http_json_error", "http_text", "http_empty"}
            /\ last.resp.code = 500 /\ "jobId" \in DOMAIN last.resp.body)
        => /\ store[last.job].status["request_status"] = "problem"
           /\ store[last.job].status["message"] =
                  <<"Error submitting to AI server: ">> \o ErrorMessage(last.remote)
           /\ last.resp.body["error"] = ErrorMessage(last.remote)
    /\ (last.op = "cu" /\ last.remote \in {"conn_error", "timeout"} /\ last.resp.code = 200)
        => store[last.job].status["request_status"] = "created"

\* C9 witness: the AI server answered 503 with a JSON error field.
C9_Witness ==
    /\ last.op = "cu"
    /\ last.remote = "http_json_error"
    /\ last.resp.code = 500
    /\ store[last.job].status["request_status"] = "problem"
    /\ store[last.job].status["message"] = <<"Error submitting to AI server: ", "queue full">>

\* C10: the step in which complete-upload looks up a jobId that has no record
\* answers 404 with an error field; the call has written nothing and posted
\* nothing, and the store is as it was.
C10_AbsentJobIs404 ==
    [][\A p \in Procs :
        (proc[p].op = "cu" /\ proc[p].pc = "cu_load" /\ proc'[p] # proc[p]
            /\ proc[p].job \notin DOMAIN store)
        => /\ last'.op = "cu"
           /\ last'.job = proc[p].job
           /\ last'.resp.code = 404
           /\ "error" \in DOMAIN last'.resp.body
           /\ last'.writes = 0
           /\ last'.posts = 0
           /\ store' = store]_vars

\* C10 witness: a job is stored, and a complete-upload for another id was
\* answered 404.
C10_Witness ==
    /\ last.op = "cu"
    /\ last.resp.code = 404
    /\ last.job \notin DOMAIN store
    /\ DOMAIN store # {}

\* The statuses this subsystem is to write.
OwnStatuses == {"created", "submitting_job", "problem", "canceled"}

C12_LastWriterWins ==
    [][\A p \in Procs :
        LET c == proc[p]
        IN  /\ (c.pc \in {"ujs_read", "up_read"} /\ proc'[p].pc \in {"ujs_write", "up_write"})
                => proc'[p].item =
                      IF c.op = "up" THEN store[c.job]
                      ELSE [store[c.job] EXCEPT !.status = c.pend, !.last_updated = now]
            /\ (c.pc \in {"ujs_write", "up_write"} /\ proc'[p] # c /\ store' # store)
                => /\ DOMAIN store' = DOMAIN store
                   /\ \A k \in DOMAIN store \ {c.job} : store'[k] = store[k]
                   /\ store'[c.job] =
                         IF c.op = "up"
                         THEN [c.item EXCEPT !.call_params = Replacement(c.body)]
                         ELSE [c.item EXCEPT !.status = c.pend]]_vars

\* C12 witness: update-params has written back the record it read before a
\* concurrent complete-upload stored "Calling AI server API...": the record is
\* update-params' document, with the status of its read.
C12_Witness ==
    /\ last.op = "up"
    /\ last.resp.code = 200
    /\ store[last.job].status = last.item.status
    /\ \E q \in Procs : /\ proc[q].op = "cu"
                        /\ proc[q].job = last.job
                        /\ proc[q].pc = "cu_dispatch"
                        /\ proc[q].writes = 1
                        /\ proc[q].item.status # store[last.job].status
                        /\ proc[q].params = last.item.call_params

\* C13: a complete-upload whose POST was answered 200, and whose store
\* operations all went through, returns 200 with success = true and the jobId,
\* and the job's stored status is request_status "created" with the message
\* "Request received from React web. Images were presumely uploaded.".
C13_RemoteSuccessKeepsCreated ==
    (last.op = "cu" /\ last.remote = "ok" /\ ~last.fault)
        => /\ last.resp.code = 200
           /\ last.resp.body["success"] = TRUE
           /\ last.resp.body["jobId"] = last.job
           /\ store[last.job].status =
                 [request_status |-> "created",
                  message |-> <<"Request received from React web. Images were presumely uploaded.">>]

\* C13 witness: the POST was answered 200 and both status writes were made.
C13_Witness ==
    /\ last.op = "cu"
    /\ last.remote = "ok"
    /\ last.resp.code = 200
    /\ last.writes = 2

\* C14: a complete-upload call posts at most once, and once its POST has had
\* an outcome (answer, refusal, transport failure, timeout) it is never again
\* about to post.
C14_AtMostOnePost ==
    \A c \in {proc[p] : p \in Procs} \cup {last} :
        /\ c.posts <= 1
        /\ c.remote # "none" => c.pc # "cu_dispatch"

\* C14 witness: a call whose POST was answered 503 with a text body has
\* returned 500, having posted once.
C14_Witness ==
    /\ last.op = "cu"
    /\ last.remote = "http_text"
    /\ last.resp.code = 500
    /\ last.posts = 1

\* C15, as claimed: a request to any of the five endpoints that comes without
\* the identity header is answered 401 with nothing stored, uploaded or posted
\* when the environment is not Development, and is not answered 401 when it is.
C15_IdentityCheck ==
    [][(arrived' # NoRequest /\ ~arrived'.auth)
        => IF arrived'.dev
           THEN last'.resp.code # 401
           ELSE /\ last'.resp.code = 401
                /\ last'.writes = 0
                /\ last'.posts = 0
                /\ store' = store
                /\ blobs' = blobs]_vars

\* C16, as claimed: a complete-upload or update-params call that met a failure
\* of the store on a record that is there, at its load or at a write, is
\* answered 500.
C16_StoreFailureIs500 ==
    (last.op \in {"cu", "up"} /\ last.fault /\ last.loaded # "absent")
        => last.resp.code = 500

\* Identifiers of up to MaxNameLen characters, allowed ones and others.
MaxNameLen == 3
NameChars == {"b", "x", "_", "/"}
Names == UNION {[1..n -> NameChars] : n \in 0..MaxNameLen}

\* C17: sanitizing a sanitized identifier changes nothing, for every identifier
\* of up to MaxNameLen characters; in every store state get-jobs-by-user finds
\* the same rows for a userId and for its sanitized form ("b/x" and "b_x"), and
\* a listing answered 200 holds the rows whose request_name is the sanitized
\* userId.
C17_SanitizeIdempotentListing ==
    /\ \A u \in Names : Sanitize(Sanitize(u)) = Sanitize(u)
    /\ \A u \in UserIds : JobsOfUser(u) = JobsOfUser(Sanitize(u))
    /\ (last.op = "list" /\ last.resp.code = 200)
        => last.resp.body["items"] =
              {JobSummary(store[j]) :
                  j \in {k \in DOMAIN store :
                            /\ "request_name" \in DOMAIN store[k].call_params
                            /\ store[k].call_params["request_name"]
                                  = Sanitize(last.body["userId"])}}

\* C17 witness: the listing for "b/x" has found a job created for "b/x".
C17_Witness ==
    /\ last.op = "list"
    /\ last.resp.code = 200
    /\ last.body["userId"] = <<"b", "/", "x">>
    /\ last.resp.body["items"] # {}

\* JSON values that are integers.
JsonIntegers == {"5"}

\* C18, as claimed: a create-job request that passed the identity check and
\* whose body has no num_images, or one that is not an integer, is answered
\* 400; it stores no record and its response carries no upload credential.
C18_BadCountRejected ==
    [][(/\ last' # Idle
        /\ last'.op = "create"
        /\ last'.resp.code # 401
        /\ \/ "num_images" \notin DOMAIN last'.body
           \/ last'.body["num_images"] \notin JsonIntegers)
        => /\ last'.resp.code = 400
           /\ store' = store
           /\ DOMAIN last'.resp.headers = {}]_vars

\* C19: the token of a create-job answered 200 at time T expires at T + 60,
\* and a token generate_sas_token issues at time T for expiry_minutes = m
\* expires at T + m (times in minutes, T up to MaxClock).
C19_SasExpiry ==
    /\ (last.op = "create" /\ last.resp.code = 200)
        => last.resp.headers["sas_url"].sas_token.expiry = now + 60
    /\ last.op = "sas"
        => last.resp.headers["sas_token"].expiry = now + last.body["expiry_minutes"]

\* C19 witness: a job was created at time 1, with a token that expires at 61.
C19_Witness ==
    /\ last.op = "create"
    /\ last.resp.code = 200
    /\ now = 1
    /\ last.resp.headers["sas_url"].sas_token.expiry = 61

\* C20: a complete-upload call that is about to post, has posted or has had
\* its POST skipped has made its first status write, and that write stored
\* request_status "created" with "Calling AI server API..."; a call whose first
\* status update failed has returned 500 without a POST.
C20_InProgressWriteBeforeDispatch ==
    [][/\ \A c \in {proc'[p] : p \in Procs} \cup {last'} :
            c.op = "cu" =>
                /\ (c.pc = "cu_dispatch" \/ c.remote # "none" \/ c.posts > 0) => c.writes >= 1
                /\ (c.pc = "done" /\ c.phase = 1)
                        => c.resp.code = 500 /\ c.posts = 0 /\ c.remote = "none"
       /\ \A p \in Procs :
            (proc[p].op = "cu" /\ proc[p].pc # "cu_dispatch" /\ proc'[p].pc = "cu_dispatch")
                => /\ proc[p].writes = 0
                   /\ proc'[p].writes = 1
                   /\ store'[proc[p].job].status =
                         [request_status |-> "created",
                          message |-> <<"Calling AI server API...">>]]_vars

\* C20 witness: one call's first status update has failed and it has returned
\* 500, while another call has posted.
C20_Witness ==
    /\ last.op = "cu"
    /\ last.phase = 1
    /\ last.resp.code = 500
    /\ \E q \in Procs : proc[q].op = "cu" /\ proc[q].posts = 1

\* C21, as claimed: the parameter set a complete-upload call posts is the
\* call_params stored in the job's record at the time of the POST.
C21_SentParamsAreStored ==
    [][\A p \in Procs :
        (proc[p].op = "cu" /\ proc[p].pc = "cu_dispatch" /\ proc'[p].posts = proc[p].posts + 1)
            => proc'[p].sent = store[proc[p].job].call_params]_vars

\* C22, as claimed: no step of a complete-upload call changes a stored
\* request_status that is running, completed or failed to created or problem.
C22_WorkerStatusKept ==
    [][\A p \in Procs :
        (proc[p].op = "cu" /\ proc'[p] # proc[p] /\ proc[p].job \in DOMAIN store
            /\ store[proc[p].job].status["request_status"] \in {"running", "completed", "failed"})
            => store'[proc[p].job].status["request_status"] \notin {"created", "problem"}]_vars

\* C23, as claimed: the write of an update-params call leaves the record's id,
\* status, job_submission_time and last_updated as they were in the store
\* right before the write.
C23_UpdateChangesOnlyParams ==
    [][\A p \in Procs :
        (proc[p].op = "up" /\ proc[p].pc = "up_write" /\ proc'[p] # proc[p])
            => LET j == proc[p].job
               IN  /\ store'[j].id = store[j].id
                   /\ store'[j].status = store[j].status
                   /\ store'[j].job_submission_time = store[j].job_submission_time
                   /\ store'[j].last_updated = store[j].last_updated]_vars

\* C24, as claimed: a create-job call that is answered with another code than
\* 200 has added no record to the store.
C24_ErrorMeansNoRecord ==
    [][(last' # Idle /\ last'.op = "create" /\ last'.resp.code # 200)
        => store' = store]_vars

\* C25, as claimed: a job that get-jobs-by-user lists for u (its stored
\* request_name is the sanitized u), once update-params has replaced its
\* parameters by a set carrying request_name u, is still listed for u.
C25_StillListedAfterUpdate ==
    (/\ last.op = "up"
     /\ last.resp.code = 200
     /\ "request_name" \in DOMAIN last.body
     /\ "request_name" \in DOMAIN last.item.call_params
     /\ last.item.call_params["request_name"] = Sanitize(last.body["request_name"]))
        => \E row \in JobsOfUser(last.body["request_name"]) : row.id = last.job
====
